---- MODULE Spec2Model ----
(***************************************************************************)
(* Model of scripts/consolidate-expense-data.py: the vendor classifier     *)
(* (extract_vendor), the amount parser (parse_amount), the line scanner of *)
(* parse_markdown_file and the aggregation loop of main.                   *)
(*                                                                         *)
(* Python strings are TLA+ strings; TLC evaluates Len, SubSeq and \o on    *)
(* them, so every string operation below is computed character by          *)
(* character as the Python built-in computes it.                           *)
(***************************************************************************)
EXTENDS Integers, Sequences, FiniteSets, TLC

VARIABLES
    VENDOR_PATTERNS,  \* the module-level ordered rule list
    pc,               \* position of the running function
    description,      \* extract_vendor: its argument
    vendor,           \* extract_vendor: the value returned
    line,             \* parse_markdown_file: the loop variable
    in_table,         \* parse_markdown_file: the scanner state
    header_found,     \* parse_markdown_file: set when a header was read
    expenses,         \* parse_markdown_file: the records of this file
    nread,            \* parse_markdown_file: lines of the file consumed
    md_files,         \* main: the contents of the sorted files
    next_file,        \* main: index of the next file to parse
    all_expenses      \* main: the aggregated records

vars == <<VENDOR_PATTERNS, pc, description, vendor, line, in_table,
          header_found, expenses, nread, md_files, next_file, all_expenses>>

----------------------------------------------------------------------------
(* Bounds of the model.                                                    *)

\* lines of one file fed to the scanner
MaxLines == 4
\* whitespace-separated tokens of a description given to the classifier
MaxTokens == 3
\* files handed to main
MaxFiles == 2
\* table lines after the header in a file handed to main
MaxRows == 2

----------------------------------------------------------------------------
(* Python string built-ins.                                                *)

Ch(s, i) == SubSeq(s, i, i)

Whitespace == {" ", "\t", "\r", "\f"}

RECURSIVE lstrip(_)
lstrip(s) ==
    IF Len(s) > 0 /\ Ch(s, 1) \in Whitespace
    THEN lstrip(SubSeq(s, 2, Len(s)))
    ELSE s

RECURSIVE rstrip(_)
rstrip(s) ==
    IF Len(s) > 0 /\ Ch(s, Len(s)) \in Whitespace
    THEN rstrip(SubSeq(s, 1, Len(s) - 1))
    ELSE s

strip(s) == rstrip(lstrip(s))

\* sub in s
contains(s, sub) ==
    \E i \in 1..(Len(s) - Len(sub) + 1) : SubSeq(s, i, i + Len(sub) - 1) = sub

startswith(s, prefix) ==
    Len(s) >= Len(prefix) /\ SubSeq(s, 1, Len(prefix)) = prefix

\* s.find(c) for a one-character c, 1-based; 0 when c does not occur
RECURSIVE find(_, _, _)
find(s, c, i) ==
    IF i > Len(s) THEN 0
    ELSE IF Ch(s, i) = c THEN i
    ELSE find(s, c, i + 1)

\* s.split(sep) for a one-character separator: one field more than there
\* are separators, empty fields kept
RECURSIVE split_on(_, _)
split_on(s, sep) ==
    LET i == find(s, sep, 1)
    IN  IF i = 0 THEN <<s>>
        ELSE <<SubSeq(s, 1, i - 1)>> \o split_on(SubSeq(s, i + 1, Len(s)), sep)

\* index of the first whitespace character of s at or after i, Len(s)+1 if none
RECURSIVE token_end(_, _)
token_end(s, i) ==
    IF i > Len(s) \/ Ch(s, i) \in Whitespace THEN i ELSE token_end(s, i + 1)

\* s.split(): the maximal runs of non-whitespace characters
RECURSIVE split(_)
split(s) ==
    LET t == lstrip(s)
        e == token_end(t, 1)
    IN  IF t = "" THEN <<>>
        ELSE <<SubSeq(t, 1, e - 1)>> \o split(SubSeq(t, e, Len(t)))

\* s.replace(c, '') for a one-character c
RECURSIVE remove(_, _)
remove(s, c) ==
    IF s = "" THEN ""
    ELSE (IF Ch(s, 1) = c THEN "" ELSE Ch(s, 1)) \o remove(SubSeq(s, 2, Len(s)), c)

\* ' '.join(words)
RECURSIVE join(_)
join(words) ==
    IF words = <<>> THEN ""
    ELSE IF Len(words) = 1 THEN words[1]
    ELSE words[1] \o " " \o join(Tail(words))

----------------------------------------------------------------------------
(* The subset of Python's re used by the rule list: literals, the escapes  *)
(* \b \. \', the wildcard ., the quantifiers * and ? and top-level         *)
(* alternation, matched with re.IGNORECASE.                                *)

UPPER == "ABCDEFGHIJKLMNOPQRSTUVWXYZ"
LOWER == "abcdefghijklmnopqrstuvwxyz"
DIGITS == "0123456789"

LowerMap ==
    [c \in {Ch(UPPER, i) : i \in 1..26} |->
        Ch(LOWER, CHOOSE i \in 1..26 : Ch(UPPER, i) = c)]

lower(c) == IF c \in DOMAIN LowerMap THEN LowerMap[c] ELSE c

\* the characters \w matches
WordChars ==
    {Ch(UPPER, i) : i \in 1..26} \cup {Ch(LOWER, i) : i \in 1..26}
        \cup {Ch(DIGITS, i) : i \in 1..10} \cup {"_"}

\* \b at position i of s (before the i-th character)
word_boundary(s, i) ==
    (i > 1 /\ Ch(s, i - 1) \in WordChars) # (i <= Len(s) /\ Ch(s, i) \in WordChars)

\* the positions where the top-level alternatives of a pattern begin
alternatives(p) == {1} \cup {k + 1 : k \in {j \in 1..Len(p) : Ch(p, j) = "|"}}

\* does the alternative of p that continues at k match s from position i
RECURSIVE match_here(_, _, _, _)
match_here(p, k, s, i) ==
    IF k > Len(p) \/ Ch(p, k) = "|" THEN TRUE
    ELSE IF Ch(p, k) = "\\" /\ Ch(p, k + 1) = "b"
    THEN word_boundary(s, i) /\ match_here(p, k + 2, s, i)
    ELSE
        LET escaped == Ch(p, k) = "\\"
            any     == Ch(p, k) = "."
            atom    == IF escaped THEN Ch(p, k + 1) ELSE Ch(p, k)
            q       == IF escaped THEN k + 2 ELSE k + 1
            quant   == IF q <= Len(p) THEN Ch(p, q) ELSE ""
            one     == i <= Len(s) /\ (any \/ lower(Ch(s, i)) = lower(atom))
        IN  IF quant = "*"
            THEN match_here(p, q + 1, s, i) \/ (one /\ match_here(p, k, s, i + 1))
            ELSE IF quant = "?"
            THEN match_here(p, q + 1, s, i) \/ (one /\ match_here(p, q + 1, s, i + 1))
            ELSE one /\ match_here(p, q, s, i + 1)

\* re.search(pattern, s, re.IGNORECASE) is not None
re_search(pattern, s) ==
    \E k \in alternatives(pattern) :
        \E i \in 1..(Len(s) + 1) : match_here(pattern, k, s, i)

----------------------------------------------------------------------------
(* The vendor classifier.                                                  *)

\* the value VENDOR_PATTERNS is bound to when the module is loaded
VendorRules ==
    <<
       <<"\\bDelta\\b|\\bDELTA AIR\\b", "Delta Airlines">>,
       <<"\\bAmerican\\b|\\bAMERICAN AIR", "American Airlines">>,
       <<"\\bSouthwest\\b", "Southwest Airlines">>,
       <<"\\bUnited\\b", "United Airlines">>,
       <<"\\bHampton Inn\\b|\\bHAMPTON INN\\b", "Hampton Inn">>,
       <<"\\bHilton\\b|\\bHILTON\\b", "Hilton">>,
       <<"\\bMarriott\\b|\\bMARRIOTT\\b", "Marriott">>,
       <<"\\bDoubleTree\\b|\\bDOUBLETREE\\b", "DoubleTree">>,
       <<"\\bTribute Portfolio\\b", "Tribute Portfolio Hotel">>,
       <<"\\bHertz\\b|\\bHERTZ\\b", "Hertz">>,
       <<"\\bEnterprise\\b", "Enterprise">>,
       <<"\\bRDU\\b.*\\bParking\\b|\\bRDUAA\\b", "RDU Airport Parking">>,
       <<"\\bParking\\b", "Parking">>,
       <<"\\bLyft\\b|\\bLYFT\\b", "Lyft">>,
       <<"\\bUber\\b|\\bUBER\\b", "Uber">>,
       <<"\\bChatGPT\\b|\\bOpenAI\\b|\\bOPENAI\\b", "OpenAI">>,
       <<"\\bClaude\\b|\\bCLAUDE\\.AI\\b", "Anthropic Claude">>,
       <<"\\bCursor\\b|\\bCURSOR\\b", "Cursor AI">>,
       <<"\\bTwilio\\b|\\bTWILIO\\b", "Twilio">>,
       <<"\\bFoxit\\b|\\bFOXIT\\b", "Foxit">>,
       <<"\\bFireflies\\b|\\bFIREFLIES\\b", "Fireflies.AI">>,
       <<"\\bGoDaddy\\b|\\bGODADDY\\b", "GoDaddy">>,
       <<"\\bSuperhuman\\b|\\bSUPERHUMAN\\b", "Superhuman">>,
       <<"\\bElevenLabs\\b|\\bELEVENLABS\\b", "ElevenLabs">>,
       <<"\\bAddigy\\b|\\bADIGY\\b", "Addigy">>,
       <<"\\bPyCharm\\b", "JetBrains PyCharm">>,
       <<"\\bGamma\\b", "Gamma">>,
       <<"\\bStarlink\\b|\\bSTARLINK\\b", "Starlink">>,
       <<"\\bCrystal Reports\\b", "SAP Crystal Reports">>,
       <<"\\bAT&T\\b|\\bATT\\b|\\bMobile Telephone\\b", "AT&T">>,
       <<"\\bGFiber\\b|\\bGoogle Fiber\\b|\\bUtilities.*Internet\\b", "Google Fiber">>,
       <<"\\bVerizon\\b|\\bVZW\\b", "Verizon">>,
       <<"\\bAmazon\\b|\\bAMAZON\\b", "Amazon">>,
       <<"\\bBest Buy\\b|\\bBEST BUY\\b", "Best Buy">>,
       <<"\\bWalmart\\b|\\bWALMART\\b", "Walmart">>,
       <<"\\bDell\\b|\\bDELL\\b", "Dell">>,
       <<"\\bApple\\b|\\bAPPLE\\b", "Apple">>,
       <<"\\bOwl Labs\\b", "Owl Labs">>,
       <<"\\bUPS Store\\b|\\bUPS\\b.*Shipping", "UPS">>,
       <<"\\bChick-fil-A\\b|\\bChickfila\\b", "Chick-fil-A">>,
       <<"\\bChilis\\b|\\bChili\\'?s\\b", "Chilis">>,
       <<"\\bFive Guys\\b", "Five Guys">>,
       <<"\\bBuffalo Wild Wings\\b", "Buffalo Wild Wings">>,
       <<"\\bDoorDash\\b", "DoorDash">>,
       <<"\\bStarbucks\\b", "Starbucks">>,
       <<"\\bFlight\\b", "Flight">>,
       <<"\\bHotel\\b", "Hotel">>,
       <<"\\bCar Rental\\b|\\bRental Car\\b", "Car Rental">>,
       <<"\\bBreakfast\\b", "Meal - Breakfast">>,
       <<"\\bLunch\\b", "Meal - Lunch">>,
       <<"\\bDinner\\b", "Meal - Dinner">>,
       <<"\\bMeal\\b", "Meal">>
    >>

SkipPrefixes == <<"PAYPAL", "DNH*", "PY", "DMI*", "IAH", "ATL", "MSY", "DFW", "RDU">>

\* faulty variant of rule_loop: a later matching rule overrides an earlier one
RECURSIVE rule_loop_last(_, _, _)
rule_loop_last(rules, k, d) ==
    IF k > Len(rules) THEN 0
    ELSE LET later == rule_loop_last(rules, k + 1, d)
         IN  IF later # 0 THEN later
             ELSE IF re_search(rules[k][1], d) THEN k
             ELSE 0

\* for pattern, vendor in VENDOR_PATTERNS: index of the rule that returns,
\* scanning from rule k; 0 when the loop runs to its end
RECURSIVE rule_loop(_, _, _)
rule_loop(rules, k, d) ==
    IF k > Len(rules) THEN 0
    ELSE IF re_search(rules[k][1], d) THEN k
    ELSE rule_loop(rules, k + 1, d)

\* faulty variant of skip_loop: the break is missing, so the loop goes on
\* to test the new first word against the prefixes that follow
RECURSIVE skip_loop_no_break(_, _)
skip_loop_no_break(words, j) ==
    IF j > Len(SkipPrefixes) \/ words = <<>> THEN words
    ELSE IF startswith(words[1], SkipPrefixes[j])
    THEN skip_loop_no_break(Tail(words), j + 1)
    ELSE skip_loop_no_break(words, j + 1)

\* for skip in [...]: drop words[0] at the first prefix it starts with, break
RECURSIVE skip_loop(_, _)
skip_loop(words, j) ==
    IF j > Len(SkipPrefixes) THEN words
    ELSE IF startswith(words[1], SkipPrefixes[j]) THEN Tail(words)
    ELSE skip_loop(words, j + 1)

first_words(words) ==
    IF Len(words) >= 2 THEN join(SubSeq(words, 1, 2))
    ELSE IF words # <<>> THEN words[1]
    ELSE "Unknown"

extract_vendor(rules, d) ==
    LET m == rule_loop(rules, 1, d)
        words == split(d)
    IN  IF m # 0 THEN rules[m][2]
        ELSE IF words # <<>> THEN first_words(skip_loop(words, 1))
        ELSE "Unknown"

----------------------------------------------------------------------------
(* parse_amount.  A float is kept exactly, as num / 10^scale with no       *)
(* trailing zero in the fraction.  float() is modelled on signed decimal   *)
(* literals; every other text of the bounded input is one float() rejects. *)

is_digits(s) == \A i \in 1..Len(s) : find(DIGITS, Ch(s, i), 1) # 0

RECURSIVE digits_value(_)
digits_value(s) ==
    IF s = "" THEN 0
    ELSE 10 * digits_value(SubSeq(s, 1, Len(s) - 1)) + (find(DIGITS, Ch(s, Len(s)), 1) - 1)

RECURSIVE normal(_, _)
normal(num, scale) ==
    IF scale > 0 /\ num % 10 = 0 THEN normal(num \div 10, scale - 1)
    ELSE [num |-> num, scale |-> scale]

\* float(clean), with ValueError mapped to 0.0 by the except clause
to_float(clean) ==
    LET signed == startswith(clean, "-") \/ startswith(clean, "+")
        body   == IF signed THEN SubSeq(clean, 2, Len(clean)) ELSE clean
        dot    == find(body, ".", 1)
        whole  == IF dot = 0 THEN body ELSE SubSeq(body, 1, dot - 1)
        frac   == IF dot = 0 THEN "" ELSE SubSeq(body, dot + 1, Len(body))
        valid  == is_digits(whole) /\ is_digits(frac) /\ Len(whole) + Len(frac) > 0
        mag    == digits_value(whole \o frac)
    IN  IF valid
        THEN normal(IF startswith(clean, "-") THEN 0 - mag ELSE mag, Len(frac))
        ELSE [num |-> 0, scale |-> 0]

parse_amount(amount_str) == to_float(strip(remove(remove(amount_str, "$"), ",")))

----------------------------------------------------------------------------
(* parse_markdown_file: the body of the loop over the lines of a file.     *)

\* faulty variant of is_header: one marker is enough
is_header_either(l) == contains(l, "| Date |") \/ contains(l, "GL Acct")

is_header(l) == contains(l, "| Date |") /\ contains(l, "GL Acct")

\* faulty variant of branch: the table-end test misses the totals marker
branch_no_totals(l, in_tab) ==
    IF l = "" THEN "empty"
    ELSE IF is_header(l) THEN "header"
    ELSE IF in_tab /\ startswith(l, "|---") THEN "separator"
    ELSE IF in_tab /\ ~startswith(l, "|") THEN "end"
    ELSE IF in_tab /\ startswith(l, "|") THEN "row"
    ELSE "none"

\* faulty variant of branch: the empty-line test is missing
branch_no_empty(l, in_tab) ==
    IF is_header(l) THEN "header"
    ELSE IF in_tab /\ startswith(l, "|---") THEN "separator"
    ELSE IF in_tab /\ (contains(l, "**Total") \/ ~startswith(l, "|")) THEN "end"
    ELSE IF in_tab /\ startswith(l, "|") THEN "row"
    ELSE "none"

\* faulty variant of branch: the header test comes after the table-end test
branch_end_first(l, in_tab) ==
    IF l = "" THEN "empty"
    ELSE IF in_tab /\ startswith(l, "|---") THEN "separator"
    ELSE IF in_tab /\ (contains(l, "**Total") \/ ~startswith(l, "|")) THEN "end"
    ELSE IF is_header(l) THEN "header"
    ELSE IF in_tab /\ startswith(l, "|") THEN "row"
    ELSE "none"

\* the if statement of the loop body that the stripped line l takes
branch(l, in_tab) ==
    IF l = "" THEN "empty"
    ELSE IF is_header(l) THEN "header"
    ELSE IF in_tab /\ startswith(l, "|---") THEN "separator"
    ELSE IF in_tab /\ (contains(l, "**Total") \/ ~startswith(l, "|")) THEN "end"
    ELSE IF in_tab /\ startswith(l, "|") THEN "row"
    ELSE "none"

\* [p.strip() for p in line.split('|')]
RECURSIVE strip_all(_)
strip_all(fields) ==
    IF fields = <<>> THEN <<>>
    ELSE <<strip(Head(fields))>> \o strip_all(Tail(fields))

NonEmpty(p) == p # ""

\* parts after the two list comprehensions
row_parts(l) == SelectSeq(strip_all(split_on(l, "|")), NonEmpty)

ExpenseLine(parts, rules, name) ==
    [date        |-> parts[1],
     description |-> parts[4],
     vendor      |-> extract_vendor(rules, parts[4]),
     amount      |-> parse_amount(parts[5]),
     gl_code     |-> remove(parts[2], "."),
     department  |-> parts[3],
     source_file |-> name]

\* the records the row branch appends for the stripped line l
row_records(l, rules, name) ==
    LET parts == row_parts(l)
    IN  IF Len(parts) >= 5 THEN <<ExpenseLine(parts, rules, name)>> ELSE <<>>

\* one iteration of the loop on the raw line: the scanner state after it
scan_line(st, raw, rules, name) ==
    LET l == strip(raw)
        b == branch(l, st.in_table)
    IN  CASE b = "header" -> [st EXCEPT !.in_table = TRUE, !.header_found = TRUE]
          [] b = "end"    -> [st EXCEPT !.in_table = FALSE]
          [] b = "row"    ->
                [st EXCEPT !.expenses = st.expenses \o row_records(l, rules, name)]
          [] OTHER        -> st

scan_start == [in_table |-> FALSE, header_found |-> FALSE, expenses |-> <<>>]

RECURSIVE scan_lines(_, _, _, _)
scan_lines(st, lines, rules, name) ==
    IF lines = <<>> THEN st
    ELSE scan_lines(scan_line(st, Head(lines), rules, name), Tail(lines), rules, name)

\* parse_markdown_file(filepath), the file given as its name and its lines
parse_markdown_file(file, rules) ==
    scan_lines(scan_start, file.lines, rules, file.name).expenses

----------------------------------------------------------------------------
(* Inputs.                                                                 *)

HeaderRow   == "| Date | GL Acct/Job | Dept/Phase | Description | Amount |"
HeaderTotal == "| Date | GL Acct | **Total | D | E |"
Divider     == "|---|---|---|---|---|"
DividerWide == "| --- | --- | --- | --- | --- |"
DividerAlign == "|:---|---:|"
DividerTotal == "|---|**Total|"
OtherHeader == "| Date | Job | Phase | Description | Amount |"
RowFull     == "| 1/2 | 60.10. | IT | Hampton Inn Hotel | $1,234.50 | x |"
RowNoDept   == "| 1/3 | 6000 |  | Lunch | n/a |"
RowShort    == "| Subtotal | $5 |"
TotalRow    == "  | **Total** | a | b | c | $9 |"
Prose       == "Notes: none"
Blank       == ""
Spaces      == " \t"

\* the lines a file fed to the scanner is made of
Lines == {HeaderRow, HeaderTotal, OtherHeader, Divider, DividerWide, DividerAlign,
          DividerTotal, RowFull, RowNoDept, RowShort, TotalRow, Prose, Blank, Spaces}

FileName == "expense-report-1.md"

\* the words descriptions given to the classifier are made of
Words == {"Hampton", "INN", "hotel", "PAYPAL", "PYX", "fee"}

RECURSIVE SeqsUpTo(_, _)
SeqsUpTo(S, n) ==
    IF n = 0 THEN {<<>>}
    ELSE LET shorter == SeqsUpTo(S, n - 1)
         IN  shorter \cup {Append(s, x) : s \in shorter, x \in S}

Descriptions ==
    {join(ws) : ws \in SeqsUpTo(Words, MaxTokens)}
        \cup {" " \o w \o "  " : w \in Words \cup {""}}
        \cup {w \o " \t " \o v : w, v \in Words}

\* the table lines of a file handed to main
TableLines == {DividerWide, RowFull, RowNoDept, TotalRow}

\* the contents a file handed to main can have
Contents ==
    {h \o body : h \in {<<>>, <<HeaderRow>>}, body \in SeqsUpTo(TableLines, MaxRows)}

\* the name of the i-th file of sorted(md_folder.glob('expense-report-*.md'))
file_name(i) == "expense-report-" \o Ch(DIGITS, i + 1) \o ".md"

\* the sorted file lists of n files
FileLists(n) ==
    {[i \in 1..n |-> [name |-> file_name(i), lines |-> c[i]]] : c \in [1..n -> Contents]}

----------------------------------------------------------------------------
(* State machine.                                                          *)

scanner_vars == <<line, in_table, header_found, expenses, nread>>
vendor_vars  == <<description, vendor>>
main_vars    == <<md_files, next_file, all_expenses>>

Idle ==
    /\ VENDOR_PATTERNS = VendorRules
    /\ description = "" /\ vendor = ""
    /\ line = "" /\ in_table = FALSE /\ header_found = FALSE
    /\ expenses = <<>> /\ nread = 0
    /\ md_files = <<>> /\ next_file = 1 /\ all_expenses = <<>>

\* parse_markdown_file entered: lines 124-131 executed, the loop not yet
Init == pc = "for" /\ Idle

\* for line in lines: the next line of the file is bound to line
NextLine ==
    /\ pc = "for"
    /\ nread < MaxLines
    /\ \E l \in Lines : line' = l
    /\ nread' = nread + 1
    /\ pc' = "body"
    /\ UNCHANGED <<VENDOR_PATTERNS, in_table, header_found, expenses>>
    /\ UNCHANGED <<vendor_vars, main_vars>>

\* the effect of the loop body on the line bound to line; continue, or the
\* end of the body, leads back to the for statement
LoopBody ==
    /\ LET st == scan_line([in_table |-> in_table, header_found |-> header_found,
                            expenses |-> expenses], line, VENDOR_PATTERNS, FileName)
       IN  /\ in_table' = st.in_table
           /\ header_found' = st.header_found
           /\ expenses' = st.expenses
    /\ line' = strip(line)
    /\ pc' = "for"
    /\ UNCHANGED <<VENDOR_PATTERNS, nread, vendor_vars, main_vars>>

\* if not line: continue
SkipEmpty ==
    /\ pc = "body"
    /\ branch(strip(line), in_table) = "empty"
    /\ LoopBody

\* if '| Date |' in line and 'GL Acct' in line
TableStart ==
    /\ pc = "body"
    /\ branch(strip(line), in_table) = "header"
    /\ LoopBody

\* if in_table and line.startswith('|---'): continue
SkipSeparator ==
    /\ pc = "body"
    /\ branch(strip(line), in_table) = "separator"
    /\ LoopBody

\* if in_table and ('**Total' in line or not line.startswith('|'))
TableEnd ==
    /\ pc = "body"
    /\ branch(strip(line), in_table) = "end"
    /\ LoopBody

\* if in_table and line.startswith('|')
ParseRow ==
    /\ pc = "body"
    /\ branch(strip(line), in_table) = "row"
    /\ LoopBody

\* no if statement applies: a line outside the table that is no header
OutsideTable ==
    /\ pc = "body"
    /\ branch(strip(line), in_table) = "none"
    /\ LoopBody

\* the loop is exhausted: return expenses
Return ==
    /\ pc = "for"
    /\ pc' = "return"
    /\ UNCHANGED <<VENDOR_PATTERNS, scanner_vars, vendor_vars, main_vars>>

Next ==
    \/ NextLine
    \/ SkipEmpty
    \/ TableStart
    \/ SkipSeparator
    \/ TableEnd
    \/ ParseRow
    \/ OutsideTable
    \/ Return

Spec == Init /\ [][Next]_vars

\* extract_vendor called on a description
InitVendor ==
    /\ pc = "call"
    /\ VENDOR_PATTERNS = VendorRules
    /\ description \in Descriptions
    /\ vendor = ""
    /\ line = "" /\ in_table = FALSE /\ header_found = FALSE
    /\ expenses = <<>> /\ nread = 0
    /\ md_files = <<>> /\ next_file = 1 /\ all_expenses = <<>>

Classify ==
    /\ pc = "call"
    /\ vendor' = extract_vendor(VENDOR_PATTERNS, description)
    /\ pc' = "returned"
    /\ UNCHANGED <<VENDOR_PATTERNS, description, scanner_vars, main_vars>>

NextVendor == Classify

SpecVendor == InitVendor /\ [][NextVendor]_vars

\* main entered with the sorted file list
InitMain ==
    /\ pc = "main"
    /\ VENDOR_PATTERNS = VendorRules
    /\ description = "" /\ vendor = ""
    /\ line = "" /\ in_table = FALSE /\ header_found = FALSE
    /\ expenses = <<>> /\ nread = 0
    /\ \E n \in 0..MaxFiles : md_files \in FileLists(n)
    /\ next_file = 1
    /\ all_expenses = <<>>

\* one iteration of for md_file in md_files
ParseFile ==
    /\ pc = "main"
    /\ next_file <= Len(md_files)
    /\ all_expenses' =
          all_expenses \o parse_markdown_file(md_files[next_file], VENDOR_PATTERNS)
    /\ next_file' = next_file + 1
    /\ UNCHANGED <<VENDOR_PATTERNS, pc, md_files, scanner_vars, vendor_vars>>

\* the loop is exhausted: the records are written out
WriteCsv ==
    /\ pc = "main"
    /\ next_file > Len(md_files)
    /\ pc' = "written"
    /\ UNCHANGED <<VENDOR_PATTERNS, md_files, next_file, all_expenses>>
    /\ UNCHANGED <<scanner_vars, vendor_vars>>

NextMain ==
    \/ ParseFile
    \/ WriteCsv

SpecMain == InitMain /\ [][NextMain]_vars

----------------------------------------------------------------------------
(* Vocabulary of the specification, stated apart from the code above.      *)

\* a line containing both the date-column marker and the GL-account marker
HeaderLine(l) == contains(l, "| Date |") /\ contains(l, "GL Acct")

\* a line containing the totals marker
TotalsLine(l) == contains(l, "**Total")

\* a line beginning with the row-delimiter character
RowDelimited(l) == Len(l) > 0 /\ Ch(l, 1) = "|"

\* an empty or whitespace-only line
BlankLine(l) == \A i \in 1..Len(l) : Ch(l, i) \in Whitespace

\* a line made of row delimiters, dashes, alignment colons and spaces only
SeparatorLine(l) ==
    /\ RowDelimited(l)
    /\ \E i \in 1..Len(l) : Ch(l, i) = "-"
    /\ \A i \in 1..Len(l) : Ch(l, i) \in {"|", "-", ":", " "}

\* the line without its leading and trailing whitespace
Trimmed(l) == strip(l)

\* the cells of a row: the fields between the delimiters, the empty fields
\* at the two ends of the split discarded, each field trimmed
Cells(l) ==
    LET f  == split_on(l, "|")
        lo == IF f[1] = "" THEN 2 ELSE 1
        hi == IF f[Len(f)] = "" THEN Len(f) - 1 ELSE Len(f)
    IN  strip_all(SubSeq(f, lo, hi))

\* a line parsed as a data row when read inside the table
DataRow(l) ==
    /\ RowDelimited(l)
    /\ ~HeaderLine(l)
    /\ ~SeparatorLine(l)
    /\ ~TotalsLine(l)

\* s without its trailing period characters
RECURSIVE WithoutTrailingPeriods(_)
WithoutTrailingPeriods(s) ==
    IF Len(s) > 0 /\ Ch(s, Len(s)) = "."
    THEN WithoutTrailingPeriods(SubSeq(s, 1, Len(s) - 1))
    ELSE s

Last(s) == s[Len(s)]

\* the loop body is about to run on the raw line bound to line
AtBody == pc = "body"

----------------------------------------------------------------------------
(* Claims about the scanner, checked under Spec.                           *)

\* C1: a data row read inside the table that has five or more cells (only
\* the empty fields at the two ends of the split discarded) appends one
\* record whose date, GL code, department, description and amount come
\* from the 1st..5th cell; an empty interior cell keeps its position.
C1_PositionalCells ==
    [][ (AtBody /\ in_table /\ DataRow(Trimmed(line))
              /\ Len(Cells(Trimmed(line))) >= 5)
        => /\ Len(expenses') = Len(expenses) + 1
           /\ LET c == Cells(Trimmed(line))
                  r == Last(expenses')
              IN  /\ r.date = c[1]
                  /\ remove(r.gl_code, ".") = remove(c[2], ".")
                  /\ r.department = c[3]
                  /\ r.description = c[4]
                  /\ r.amount = parse_amount(c[5]) ]_vars

\* C2 as stated: inside the table every line with the totals marker and
\* every non-empty line not beginning with the row delimiter closes the
\* table without a record, whatever else it contains; outside the table no
\* line but a header produces a record or opens the table.
C2_EveryTotalsLineCloses ==
    [][ /\ (AtBody /\ in_table
               /\ (TotalsLine(Trimmed(line))
                     \/ (~BlankLine(line) /\ ~RowDelimited(Trimmed(line)))))
            => (~in_table' /\ expenses' = expenses)
        /\ (AtBody /\ ~in_table /\ ~HeaderLine(Trimmed(line)))
            => (~in_table' /\ expenses' = expenses) ]_vars

\* C2 amended: the same for every line that is neither a header line nor a
\* line beginning with the separator prefix |--- .
C2_TotalsLineCloses ==
    [][ /\ (AtBody /\ in_table
               /\ ~HeaderLine(Trimmed(line))
               /\ ~startswith(Trimmed(line), "|---")
               /\ (TotalsLine(Trimmed(line))
                     \/ (~BlankLine(line) /\ ~RowDelimited(Trimmed(line)))))
            => (~in_table' /\ expenses' = expenses)
        /\ (AtBody /\ ~in_table /\ ~HeaderLine(Trimmed(line)))
            => (~in_table' /\ expenses' = expenses) ]_vars

\* a totals line beginning with the row delimiter, with five or more
\* cells, was read as line 2 right after the header and closed the table
C2_Witness ==
    /\ pc = "for" /\ nread = 2 /\ header_found
    /\ TotalsLine(line) /\ RowDelimited(line) /\ ~HeaderLine(line)
    /\ Len(Cells(line)) >= 5
    /\ ~in_table /\ expenses = <<>>

\* C3: inside the table a line made solely of separator punctuation is
\* ignored: no record, the table stays open.
C3_SeparatorIgnored ==
    [][ (AtBody /\ in_table /\ SeparatorLine(Trimmed(line)))
        => (in_table' /\ expenses' = expenses) ]_vars

C5_OnlyHeaderOpens ==
    /\ [](nread = 0 => (~in_table /\ expenses = <<>>))
    /\ [](~header_found => (~in_table /\ expenses = <<>>))
    /\ [][ /\ (~in_table /\ in_table') => (AtBody /\ HeaderLine(Trimmed(line)))
           /\ (~header_found /\ header_found') => (AtBody /\ HeaderLine(Trimmed(line)))
           /\ (expenses' # expenses) => (AtBody /\ in_table) ]_vars

\* a file without header returned no record though its last line is a
\* row-delimited line with five or more cells
C5_Witness ==
    /\ pc = "return" /\ nread > 0
    /\ ~header_found
    /\ RowDelimited(line) /\ Len(Cells(line)) >= 5
    /\ expenses = <<>>

\* C9: the GL code of the record of a row is the row's second cell with
\* its trailing periods removed and every other character kept.
C9_TrailingPeriodsOnly ==
    [][ (AtBody /\ in_table /\ DataRow(Trimmed(line))
              /\ Len(Cells(Trimmed(line))) >= 5
              /\ \A i \in 1..Len(Cells(Trimmed(line))) : Cells(Trimmed(line))[i] # "")
        => /\ Len(expenses') = Len(expenses) + 1
           /\ Last(expenses').gl_code
                 = WithoutTrailingPeriods(Cells(Trimmed(line))[2]) ]_vars

\* C10: a header line is recognised before every other test, in both
\* states: after it the table is open and no record was appended.
C10_HeaderFirst ==
    [][ (AtBody /\ HeaderLine(Trimmed(line)))
        => (in_table' /\ header_found' /\ expenses' = expenses) ]_vars

\* a header line that also has the totals marker and five cells was read
\* as line 3, after a header and a recorded row, and the table is open
C10_Witness ==
    /\ pc = "for" /\ nread = 3 /\ Len(expenses) = 1
    /\ HeaderLine(line) /\ TotalsLine(line)
    /\ RowDelimited(line) /\ Len(Cells(line)) >= 5
    /\ in_table

----------------------------------------------------------------------------
(* Claims about the classifier, checked under SpecVendor.                  *)

\* the rules whose pattern matches somewhere in d, case-insensitively
Matching(d) == {r \in 1..Len(VendorRules) : re_search(VendorRules[r][1], d)}

Least(S) == CHOOSE r \in S : \A q \in S : r <= q

\* C7: when some rule matches the description, the label returned is that
\* of the matching rule with the smallest index; the rule list is never
\* modified.
C7_FirstMatchWins ==
    /\ VENDOR_PATTERNS = VendorRules
    /\ (pc = "returned" /\ Matching(description) # {})
        => vendor = VendorRules[Least(Matching(description))][2]

\* a description matching the Hampton Inn rule and the later Hotel rule
\* was classified as Hampton Inn
C7_Witness ==
    /\ pc = "returned"
    /\ Cardinality(Matching(description)) >= 2
    /\ vendor = "Hampton Inn"

\* a token beginning with one of the noise prefixes
NoisePrefixed(t) == \E j \in 1..Len(SkipPrefixes) : startswith(t, SkipPrefixes[j])

\* the tokens left after the first one is discarded if it is noise
Remaining(d) ==
    LET w == split(d)
    IN  IF w # <<>> /\ NoisePrefixed(w[1]) THEN Tail(w) ELSE w

FallbackLabel(d) ==
    LET r == Remaining(d)
    IN  IF Len(r) >= 2 THEN r[1] \o " " \o r[2]
        ELSE IF Len(r) = 1 THEN r[1]
        ELSE "Unknown"

\* C8: when no rule matches, the label is built from the whitespace
\* tokens: the first is discarded iff it begins with a noise prefix, then
\* the first two remaining joined by a space, or the only one, or Unknown.
C8_Fallback ==
    (pc = "returned" /\ Matching(description) = {})
        => vendor = FallbackLabel(description)

\* a description of three tokens, the first two noise-prefixed, matched no
\* rule: only the first token was discarded
C8_Witness ==
    /\ pc = "returned"
    /\ Matching(description) = {}
    /\ Len(split(description)) = 3
    /\ NoisePrefixed(split(description)[1])
    /\ NoisePrefixed(split(description)[2])
    /\ vendor = split(description)[2] \o " " \o split(description)[3]

\* descriptions without token return Unknown
C8_UnknownWitness ==
    /\ pc = "returned"
    /\ description # ""
    /\ split(description) = <<>>
    /\ vendor = "Unknown"

----------------------------------------------------------------------------
(* Claim about the aggregation, checked under SpecMain.                    *)

\* the rows of a file that are due a record: <<file name, date cell>> of
\* every data row with five or more cells read inside the table
RECURSIVE ExpectedRows(_, _, _)
ExpectedRows(lines, inside, name) ==
    IF lines = <<>> THEN <<>>
    ELSE LET l    == Trimmed(Head(lines))
             rest == Tail(lines)
         IN  IF BlankLine(l) THEN ExpectedRows(rest, inside, name)
             ELSE IF HeaderLine(l) THEN ExpectedRows(rest, TRUE, name)
             ELSE IF ~inside THEN ExpectedRows(rest, FALSE, name)
             ELSE IF SeparatorLine(l) THEN ExpectedRows(rest, TRUE, name)
             ELSE IF TotalsLine(l) \/ ~RowDelimited(l)
             THEN ExpectedRows(rest, FALSE, name)
             ELSE (IF Len(Cells(l)) >= 5 THEN << <<name, Cells(l)[1]>> >> ELSE <<>>)
                      \o ExpectedRows(rest, TRUE, name)

RECURSIVE ExpectedAll(_, _)
ExpectedAll(files, n) ==
    IF n = 0 THEN <<>>
    ELSE ExpectedAll(files, n - 1)
             \o ExpectedRows(files[n].lines, FALSE, files[n].name)

RowKeys(records) ==
    [i \in 1..Len(records) |-> <<records[i].source_file, records[i].date>>]

\* C6: the aggregated records are, file by file in input order and row by
\* row, exactly the data rows that have five or more cells.
C6_OneRecordPerRow ==
    RowKeys(all_expenses) = ExpectedAll(md_files, next_file - 1)

====
